---- MODULE Spec2Model ----
(***************************************************************************)
(* Mental-health tracker: the two scorers and classifiers, the SQLite      *)
(* tables of saved scores (backend.py) and the submission and graph        *)
(* handlers of the window (frontend.py).                                   *)
(*                                                                         *)
(* Time is counted in ticks; TicksPerSec ticks make one second.  A stored  *)
(* timestamp is the '%Y-%m-%d %H:%M:%S' text of a reading of the clock,    *)
(* modelled as the number of whole seconds of that reading (the texts      *)
(* order as these numbers do), and parsing it back gives the tick at the   *)
(* start of that second.  The clock is the local wall clock: it advances,  *)
(* and it can step back (end of daylight saving time, a clock correction). *)
(***************************************************************************)
EXTENDS Integers, Sequences, FiniteSets, TLC

VARIABLES
    input,              \* the argument of a scorer or classifier called on its own
    result,             \* the last call: its name, arguments and outcome
    checklist_entries,  \* rows of table checklist_entries, in rowid order
    gad7_entries,       \* rows of table gad7_entries, in rowid order
    clock,              \* the wall clock, in ticks
    graph_select,       \* text of the "Graph:" combo box
    time_filter,        \* text of the "Time Range:" combo box
    date_from,          \* value of the "From:" date-time editor, in ticks
    date_to,            \* value of the "To:" date-time editor, in ticks
    graph_data,         \* the (score, date) points the graph shows
    view                \* which of questionnaire and graph is visible

vars == <<input, result, checklist_entries, gad7_entries, clock, graph_select,
          time_filter, date_from, date_to, graph_data, view>>

(***************************************************************************)
(* Bounds of the model.                                                    *)
(***************************************************************************)
TicksPerSec == 2    \* clock readings told apart within one second
MaxClock == 2       \* the clock stops advancing at this tick
MaxEntries == 3     \* rows stored in the two tables together
LenSlack == 1       \* response vectors tried are up to this much too short or long
Over == 1           \* items and scores tried lie up to this far outside their range

(***************************************************************************)
(* Outcomes of a call: a returned value or a raised ValueError.            *)
(***************************************************************************)
Return(v) == [raised |-> FALSE, value |-> v]
Raise(msg) == [raised |-> TRUE, error |-> "ValueError", msg |-> msg]

\* A sum that leaves out the first item.
sum_skips_first(responses) ==
    LET total[n \in 0..Len(responses)] ==
            IF n <= 1 THEN 0 ELSE total[n - 1] + responses[n]
    IN  total[Len(responses)]

RECURSIVE sum(_)
sum(responses) ==
    IF responses = <<>> THEN 0
    ELSE responses[1] + sum(Tail(responses))

(***************************************************************************)
(* backend.py: scorers and classifiers.                                    *)
(***************************************************************************)
calculate_burns_score(responses) ==
    IF Len(responses) # 25
    THEN Raise("Must provide exactly 25 responses")
    ELSE IF ~(\A i \in 1..Len(responses) : 0 <= responses[i] /\ responses[i] <= 4)
    THEN Raise("All responses must be integers between 0 and 4")
    ELSE Return(sum(responses))

\* The first band ends one early.
get_depression_level_off_by_one(score) ==
    IF 0 <= score /\ score < 5 THEN "No Depression"
    ELSE IF 6 <= score /\ score <= 10 THEN "Normal but unhappy"
    ELSE IF 11 <= score /\ score <= 25 THEN "Mild depression"
    ELSE IF 26 <= score /\ score <= 50 THEN "Moderate depression"
    ELSE IF 51 <= score /\ score <= 75 THEN "Severe depression"
    ELSE IF 76 <= score /\ score <= 100 THEN "Extreme depression"
    ELSE "Invalid score"

get_depression_level(score) ==
    IF 0 <= score /\ score <= 5 THEN "No Depression"
    ELSE IF 6 <= score /\ score <= 10 THEN "Normal but unhappy"
    ELSE IF 11 <= score /\ score <= 25 THEN "Mild depression"
    ELSE IF 26 <= score /\ score <= 50 THEN "Moderate depression"
    ELSE IF 51 <= score /\ score <= 75 THEN "Severe depression"
    ELSE IF 76 <= score /\ score <= 100 THEN "Extreme depression"
    ELSE "Invalid score"

\* The range check forgets the upper end.
calculate_gad7_score_no_upper(responses) ==
    IF Len(responses) # 7
    THEN Raise("Must provide exactly 7 responses")
    ELSE IF ~(\A i \in 1..Len(responses) : 0 <= responses[i])
    THEN Raise("All responses must be integers between 0 and 3")
    ELSE Return(sum(responses))

calculate_gad7_score(responses) ==
    IF Len(responses) # 7
    THEN Raise("Must provide exactly 7 responses")
    ELSE IF ~(\A i \in 1..Len(responses) : 0 <= responses[i] /\ responses[i] <= 3)
    THEN Raise("All responses must be integers between 0 and 3")
    ELSE Return(sum(responses))

get_anxiety_level(score) ==
    IF 0 <= score /\ score <= 4 THEN "Minimal anxiety"
    ELSE IF 5 <= score /\ score <= 9 THEN "Mild anxiety"
    ELSE IF 10 <= score /\ score <= 14 THEN "Moderate anxiety"
    ELSE IF 15 <= score /\ score <= 21 THEN "Severe anxiety"
    ELSE "Invalid score"

(***************************************************************************)
(* Inputs tried.  A response vector is k copies of a followed by copies of *)
(* b, of a length near one of the two expected counts.                     *)
(***************************************************************************)
Pattern(n, k, a, b) == [i \in 1..n |-> IF i <= k THEN a ELSE b]

Lengths == {n \in 0..(25 + LenSlack) :
              \/ (25 - LenSlack <= n /\ n <= 25 + LenSlack)
              \/ (7 - LenSlack <= n /\ n <= 7 + LenSlack)}

Items == (0 - Over)..(4 + Over)

ResponseVectors ==
    {Pattern(n, k, a, b) : n \in Lengths, k \in 0..(25 + LenSlack), a \in Items, b \in Items}

Scores == (0 - Over)..(100 + Over)

NoCall == [op |-> "import"]

(***************************************************************************)
(* The scorers and classifiers called on their own.                        *)
(***************************************************************************)
call_calculate_burns_score ==
    /\ result' = [op |-> "calculate_burns_score", responses |-> input, out |-> calculate_burns_score(input)]
    /\ UNCHANGED <<input, checklist_entries, gad7_entries, clock, graph_select,
                   time_filter, date_from, date_to, graph_data, view>>

call_calculate_gad7_score ==
    /\ result' = [op |-> "calculate_gad7_score", responses |-> input, out |-> calculate_gad7_score(input)]
    /\ UNCHANGED <<input, checklist_entries, gad7_entries, clock, graph_select,
                   time_filter, date_from, date_to, graph_data, view>>

call_get_depression_level ==
    /\ result' = [op |-> "get_depression_level", score |-> input, out |-> get_depression_level(input)]
    /\ UNCHANGED <<input, checklist_entries, gad7_entries, clock, graph_select,
                   time_filter, date_from, date_to, graph_data, view>>

call_get_anxiety_level ==
    /\ result' = [op |-> "get_anxiety_level", score |-> input, out |-> get_anxiety_level(input)]
    /\ UNCHANGED <<input, checklist_entries, gad7_entries, clock, graph_select,
                   time_filter, date_from, date_to, graph_data, view>>

(***************************************************************************)
(* backend.py: the two tables.  A row is (id, score, level, timestamp).    *)
(***************************************************************************)
strftime(t) == t \div TicksPerSec

strptime(text) == text * TicksPerSec

RECURSIVE max_rowid(_)
max_rowid(table) ==
    IF table = <<>> THEN 0
    ELSE LET m == max_rowid(Tail(table))
         IN  IF table[1].id > m THEN table[1].id ELSE m

\* The id of the newest row is handed out again.
lastrowid_reused(table) == max_rowid(table)

lastrowid(table) == max_rowid(table) + 1

insert(table, score, level, current_time) ==
    Append(table, [id |-> lastrowid(table), score |-> score, level |-> level,
                   timestamp |-> current_time])

\* The ORDER BY clause is left out: rows come out in rowid order.
order_by_rowid(table) == table

\* ORDER BY timestamp DESC: rows of equal timestamp come out in rowid order.
order_by_timestamp_desc(table) ==
    LET before(i) == {j \in 1..Len(table) :
                        \/ table[j].timestamp > table[i].timestamp
                        \/ (table[j].timestamp = table[i].timestamp /\ j < i)}
    IN  [p \in 1..Len(table) |->
           table[CHOOSE i \in 1..Len(table) : Cardinality(before(i)) = p - 1]]

get_all_entries == order_by_timestamp_desc(checklist_entries)

get_all_gad7_entries == order_by_timestamp_desc(gad7_entries)

gui == <<input, graph_select, time_filter, date_from, date_to, graph_data, view>>

init_db ==
    /\ result' = [op |-> "init_db"]
    /\ UNCHANGED <<checklist_entries, gad7_entries, clock, gui>>

\* save_score labels the score with the other instrument's classifier.
save_score_insert_anxiety_label(score) ==
    insert(checklist_entries, score, get_anxiety_level(score), strftime(clock))

\* Table checklist_entries after the INSERT of save_score.
save_score_insert(score) ==
    LET depression_level == get_depression_level(score)
        current_time == strftime(clock)
    IN  insert(checklist_entries, score, depression_level, current_time)

\* Table gad7_entries after the INSERT of save_gad7_score.
save_gad7_score_insert(score) ==
    LET anxiety_level == get_anxiety_level(score)
        current_time == strftime(clock)
    IN  insert(gad7_entries, score, anxiety_level, current_time)

save_score(score) ==
    /\ Len(checklist_entries) + Len(gad7_entries) < MaxEntries
    /\ checklist_entries' = save_score_insert(score)
    /\ LET entry_id == lastrowid(checklist_entries)
       IN  result' = [op |-> "save_score", score |-> score, out |-> Return(entry_id)]
    /\ UNCHANGED <<gad7_entries, clock, gui>>

save_gad7_score(score) ==
    /\ Len(checklist_entries) + Len(gad7_entries) < MaxEntries
    /\ gad7_entries' = save_gad7_score_insert(score)
    /\ LET entry_id == lastrowid(gad7_entries)
       IN  result' = [op |-> "save_gad7_score", score |-> score, out |-> Return(entry_id)]
    /\ UNCHANGED <<checklist_entries, clock, gui>>

call_get_all_entries ==
    /\ result' = [op |-> "get_all_entries", out |-> Return(get_all_entries)]
    /\ UNCHANGED <<checklist_entries, gad7_entries, clock, gui>>

call_get_all_gad7_entries ==
    /\ result' = [op |-> "get_all_gad7_entries", out |-> Return(get_all_gad7_entries)]
    /\ UNCHANGED <<checklist_entries, gad7_entries, clock, gui>>

(***************************************************************************)
(* frontend.py: the two "Calculate Score" handlers.  The scorer's          *)
(* ValueError leaves the handler before save and before the label is set.  *)
(***************************************************************************)
\* The handler swallows the ValueError and saves a zero score.
calculate_burns_result_zero_fill(scores) ==
    LET total_score == calculate_burns_score(scores)
        saved == IF total_score.raised THEN 0 ELSE total_score.value
    IN  /\ Len(checklist_entries) + Len(gad7_entries) < MaxEntries
        /\ checklist_entries' = save_score_insert(saved)
        /\ result' = [op |-> "calculate_burns_result", scores |-> scores,
                      out |-> Return(<<saved, get_depression_level(saved)>>)]
        /\ UNCHANGED <<gad7_entries, clock, gui>>

calculate_burns_result(scores) ==
    LET total_score == calculate_burns_score(scores)
    IN  IF total_score.raised
        THEN /\ result' = [op |-> "calculate_burns_result", scores |-> scores,
                           out |-> total_score]
             /\ UNCHANGED <<checklist_entries, gad7_entries, clock, gui>>
        ELSE /\ Len(checklist_entries) + Len(gad7_entries) < MaxEntries
             /\ checklist_entries' = save_score_insert(total_score.value)
             /\ result' = [op |-> "calculate_burns_result", scores |-> scores,
                           out |-> Return(<<total_score.value,
                                            get_depression_level(total_score.value)>>)]
             /\ UNCHANGED <<gad7_entries, clock, gui>>

calculate_gad7_result(scores) ==
    LET total_score == calculate_gad7_score(scores)
    IN  IF total_score.raised
        THEN /\ result' = [op |-> "calculate_gad7_result", scores |-> scores,
                           out |-> total_score]
             /\ UNCHANGED <<checklist_entries, gad7_entries, clock, gui>>
        ELSE /\ Len(checklist_entries) + Len(gad7_entries) < MaxEntries
             /\ gad7_entries' = save_gad7_score_insert(total_score.value)
             /\ result' = [op |-> "calculate_gad7_result", scores |-> scores,
                           out |-> Return(<<total_score.value,
                                            get_anxiety_level(total_score.value)>>)]
             /\ UNCHANGED <<checklist_entries, clock, gui>>

\* The wall clock advances between calls.
Tick ==
    /\ clock < MaxClock
    /\ clock' = clock + 1
    /\ UNCHANGED <<result, checklist_entries, gad7_entries, gui>>

\* datetime.now() is naive local time: the next reading can be an earlier one.
clock_steps_back ==
    /\ \E t \in 0..(clock - 1) : clock' = t
    /\ UNCHANGED <<result, checklist_entries, gad7_entries, gui>>

(***************************************************************************)
(* frontend.py: the graph view.                                            *)
(***************************************************************************)
datetime_min == -2000000000

timedelta(days) == days * 86400 * TicksPerSec

\* The lower end of the window is exclusive.
RECURSIVE filtered_entries_after_start(_, _, _)
filtered_entries_after_start(entries, start_date, now) ==
    IF entries = <<>> THEN <<>>
    ELSE LET entry == entries[1]
             date == strptime(entry.timestamp)
         IN  (IF date > start_date /\ date <= now
              THEN << <<entry.score, date>> >> ELSE <<>>)
             \o filtered_entries_after_start(Tail(entries), start_date, now)

RECURSIVE filtered_entries(_, _, _)
filtered_entries(entries, start_date, now) ==
    IF entries = <<>> THEN <<>>
    ELSE LET entry == entries[1]
             date == strptime(entry.timestamp)
         IN  (IF date >= start_date /\ date <= now
              THEN << <<entry.score, date>> >> ELSE <<>>)
             \o filtered_entries(Tail(entries), start_date, now)

\* update_graph, given the texts the two combo boxes show when it runs.
update_graph(graph_type, filter_type) ==
    LET entries == IF graph_type = "Depression (Burns)"
                   THEN get_all_entries ELSE get_all_gad7_entries
        start_date == IF filter_type = "Last Week" THEN clock - timedelta(7)
                      ELSE IF filter_type = "Last Month" THEN clock - timedelta(30)
                      ELSE IF filter_type = "Last Year" THEN clock - timedelta(365)
                      ELSE IF filter_type = "Custom" THEN date_from
                      ELSE datetime_min
        now == IF filter_type = "Custom" THEN date_to ELSE clock
    IN  /\ graph_data' = filtered_entries(entries, start_date, now)
        /\ result' = [op |-> "update_graph", graph_type |-> graph_type,
                      filter_type |-> filter_type, entries |-> entries,
                      start_date |-> start_date, now |-> now]

GraphTexts == {"Depression (Burns)", "Anxiety (GAD-7)"}

FilterTexts == {"All Time", "Last Week", "Last Month", "Last Year", "Custom"}

\* graph_select.currentTextChanged -> update_graph
select_graph(text) ==
    /\ text # graph_select
    /\ graph_select' = text
    /\ update_graph(text, time_filter)
    /\ UNCHANGED <<input, checklist_entries, gad7_entries, clock, time_filter,
                   date_from, date_to, view>>

\* time_filter.currentTextChanged -> update_graph
select_time_filter(text) ==
    /\ text # time_filter
    /\ time_filter' = text
    /\ update_graph(graph_select, text)
    /\ UNCHANGED <<input, checklist_entries, gad7_entries, clock, graph_select,
                   date_from, date_to, view>>

\* The two date-time editors are connected to nothing.
edit_date_from(t) ==
    /\ t # date_from
    /\ date_from' = t
    /\ UNCHANGED <<input, result, checklist_entries, gad7_entries, clock,
                   graph_select, time_filter, date_to, graph_data, view>>

edit_date_to(t) ==
    /\ t # date_to
    /\ date_to' = t
    /\ UNCHANGED <<input, result, checklist_entries, gad7_entries, clock,
                   graph_select, time_filter, date_from, graph_data, view>>

toggle_view ==
    IF view = "questionnaire"
    THEN /\ view' = "graph"
         /\ update_graph(graph_select, time_filter)
         /\ UNCHANGED <<input, checklist_entries, gad7_entries, clock, graph_select,
                        time_filter, date_from, date_to>>
    ELSE /\ view' = "questionnaire"
         /\ UNCHANGED <<input, result, checklist_entries, gad7_entries, clock,
                        graph_select, time_filter, date_from, date_to, graph_data>>

(***************************************************************************)
(* Inputs of the stateful specifications.                                  *)
(***************************************************************************)
sample_burns_responses ==
    <<2, 1, 0, 2, 1, 3, 2, 1, 0, 2, 1, 0, 2, 1, 3, 2, 1, 0, 2, 1, 0, 2, 1, 0, 0>>

sample_gad7_responses == <<1, 2, 3, 2, 1, 0, 1>>

BurnsSubmissions ==
    {sample_burns_responses, Pattern(25, 25, 4, 4), Pattern(25 - LenSlack, 0, 0, 0),
     Pattern(25, 1, 4 + Over, 0)}

Gad7Submissions ==
    {sample_gad7_responses, Pattern(7 + LenSlack, 0, 0, 0), Pattern(7, 1, 0 - Over, 3)}

SavedBurnsScores == {5, 100 + Over}

SavedGad7Scores == {0 - Over, 21}

(***************************************************************************)
(* Specifications.                                                         *)
(***************************************************************************)
InitState ==
    /\ result = NoCall
    /\ checklist_entries = <<>>
    /\ gad7_entries = <<>>
    /\ clock = 0
    /\ graph_select = "Depression (Burns)"
    /\ time_filter = "All Time"
    /\ date_from = 0 - 7 * 86400 * TicksPerSec
    /\ date_to = 0
    /\ graph_data = <<>>
    /\ view = "questionnaire"

Init == input = <<>> /\ InitState

\* The scorers on their own, on every response vector tried.
InitScorer == input \in ResponseVectors /\ InitState

NextScorer == call_calculate_burns_score \/ call_calculate_gad7_score

SpecScorer == InitScorer /\ [][NextScorer]_vars

\* The classifiers on their own, on every score tried.
InitClassifier == input \in Scores /\ InitState

NextClassifier == call_get_depression_level \/ call_get_anxiety_level

SpecClassifier == InitClassifier /\ [][NextClassifier]_vars

\* The backend's public operations and the submission handlers.
Next ==
    \/ init_db
    \/ Tick
    \/ clock_steps_back
    \/ \E score \in SavedBurnsScores : save_score(score)
    \/ \E score \in SavedGad7Scores : save_gad7_score(score)
    \/ call_get_all_entries
    \/ call_get_all_gad7_entries
    \/ \E scores \in BurnsSubmissions : calculate_burns_result(scores)
    \/ \E scores \in Gad7Submissions : calculate_gad7_result(scores)

Spec == Init /\ [][Next]_vars

\* The window: submissions through the spin boxes, and the graph view.
BurnsSpinBoxes == {sample_burns_responses}

Gad7SpinBoxes == {sample_gad7_responses}

DateTimes == {0, MaxClock}

NextGraph ==
    \/ Tick
    \/ clock_steps_back
    \/ \E scores \in BurnsSpinBoxes : calculate_burns_result(scores)
    \/ \E scores \in Gad7SpinBoxes : calculate_gad7_result(scores)
    \/ \E text \in GraphTexts : select_graph(text)
    \/ \E text \in FilterTexts : select_time_filter(text)
    \/ \E t \in DateTimes : edit_date_from(t)
    \/ \E t \in DateTimes : edit_date_to(t)
    \/ toggle_view

SpecGraph == Init /\ [][NextGraph]_vars

(***************************************************************************)
(* Claims about the scorers (SpecScorer) and classifiers (SpecClassifier). *)
(***************************************************************************)
ValidVector(responses, count, top) ==
    /\ Len(responses) = count
    /\ \A i \in 1..Len(responses) : responses[i] \in 0..top

\* The total of a vector of items in 0..4, counted value by value.
ItemTotal(responses) ==
    LET times(v) == Cardinality({i \in 1..Len(responses) : responses[i] = v})
    IN  times(1) + 2 * times(2) + 3 * times(3) + 4 * times(4)

\* C1: on a valid response vector (25 items in 0..4 for depression, 7 items
\* in 0..3 for anxiety) the scorer returns exactly the sum of the items, and
\* the sum lies in 0..100 for depression and in 0..21 for anxiety.
C1_ScoreIsSum ==
    /\ (result.op = "calculate_burns_score" /\ ValidVector(result.responses, 25, 4))
         => /\ ~result.out.raised
            /\ result.out.value = ItemTotal(result.responses)
            /\ result.out.value \in 0..100
    /\ (result.op = "calculate_gad7_score" /\ ValidVector(result.responses, 7, 3))
         => /\ ~result.out.raised
            /\ result.out.value = ItemTotal(result.responses)
            /\ result.out.value \in 0..21

C1_Witness ==
    /\ result.op = "calculate_burns_score"
    /\ ValidVector(result.responses, 25, 4)
    /\ \E i, j \in 1..25 : result.responses[i] # result.responses[j]
    /\ ~result.out.raised
    /\ result.out.value = 57

\* C3: on a vector of the wrong length, or with an item outside 0..4
\* (depression) or 0..3 (anxiety), the scorer raises the validation error and
\* returns no score.
C3_InvalidRejected ==
    /\ (result.op = "calculate_burns_score" /\ ~ValidVector(result.responses, 25, 4))
         => /\ result.out.raised
            /\ result.out.error = "ValueError"
            /\ "value" \notin DOMAIN result.out
    /\ (result.op = "calculate_gad7_score" /\ ~ValidVector(result.responses, 7, 3))
         => /\ result.out.raised
            /\ result.out.error = "ValueError"
            /\ "value" \notin DOMAIN result.out

C3_Witness ==
    /\ result.op = "calculate_gad7_score"
    /\ Len(result.responses) = 7
    /\ \E i \in 1..7 : result.responses[i] = 4
    /\ \A i \in 1..7 : result.responses[i] \in 0..4
    /\ result.out.raised

DepressionBands ==
    << [low |-> 0, high |-> 5, label |-> "No Depression"],
       [low |-> 6, high |-> 10, label |-> "Normal but unhappy"],
       [low |-> 11, high |-> 25, label |-> "Mild depression"],
       [low |-> 26, high |-> 50, label |-> "Moderate depression"],
       [low |-> 51, high |-> 75, label |-> "Severe depression"],
       [low |-> 76, high |-> 100, label |-> "Extreme depression"] >>

AnxietyBands ==
    << [low |-> 0, high |-> 4, label |-> "Minimal anxiety"],
       [low |-> 5, high |-> 9, label |-> "Mild anxiety"],
       [low |-> 10, high |-> 14, label |-> "Moderate anxiety"],
       [low |-> 15, high |-> 21, label |-> "Severe anxiety"] >>

BandsOf(bands, score) ==
    {b \in 1..Len(bands) : bands[b].low <= score /\ score <= bands[b].high}

ClassifiedBy(bands, top, score, label) ==
    /\ score \in 0..top =>
         /\ Cardinality(BandsOf(bands, score)) = 1
         /\ \A b \in BandsOf(bands, score) : label = bands[b].label
    /\ label = "Invalid score" <=> score \notin 0..top

\* C2: every score in 0..100 (depression) or 0..21 (anxiety) lies in exactly
\* one band and the classifier returns that band's label; it returns
\* "Invalid score" exactly for the scores outside the range.
C2_ClassificationTotal ==
    /\ result.op = "get_depression_level"
         => ClassifiedBy(DepressionBands, 100, result.score, result.out)
    /\ result.op = "get_anxiety_level"
         => ClassifiedBy(AnxietyBands, 21, result.score, result.out)

C2_Witness ==
    /\ result.op = "get_depression_level"
    /\ result.score = 6
    /\ result.out = "Normal but unhappy"

(***************************************************************************)
(* Claims about the tables and the submission handlers (Spec).             *)
(***************************************************************************)
\* C4: a submission whose response vector the scorer rejects leaves both
\* tables as they were.
C4_RejectedSubmissionSavesNothing ==
    [][ ( /\ clock' = clock
          /\ \/ /\ result'.op = "calculate_burns_result"
                /\ ~ValidVector(result'.scores, 25, 4)
             \/ /\ result'.op = "calculate_gad7_result"
                /\ ~ValidVector(result'.scores, 7, 3) )
        => /\ checklist_entries' = checklist_entries
           /\ gad7_entries' = gad7_entries ]_vars

C4_Witness ==
    /\ result.op = "calculate_burns_result"
    /\ ~ValidVector(result.scores, 25, 4)
    /\ result.out.raised
    /\ Len(checklist_entries) >= 1

RowsOf(table) == {table[i] : i \in 1..Len(table)}

\* C5 as claimed: every stored score lies in its instrument's range and no
\* stored label is "Invalid score".
C5_AllEntriesValid ==
    /\ \A r \in RowsOf(checklist_entries) :
         r.score \in 0..100 /\ r.level # "Invalid score"
    /\ \A r \in RowsOf(gad7_entries) :
         r.score \in 0..21 /\ r.level # "Invalid score"

\* C5 as amended: every stored label is the classifier's label of the stored
\* score, so it is "Invalid score" exactly when the score is out of range,
\* and every row a submission handler adds has its score in range.
C5_EntriesLabelled ==
    /\ [](/\ \A r \in RowsOf(checklist_entries) :
               ClassifiedBy(DepressionBands, 100, r.score, r.level)
          /\ \A r \in RowsOf(gad7_entries) :
               ClassifiedBy(AnxietyBands, 21, r.score, r.level))
    /\ [][ /\ (result'.op = "calculate_burns_result" /\ clock' = clock)
             => \A r \in RowsOf(checklist_entries') \ RowsOf(checklist_entries) :
                  /\ r.score \in 0..100
                  /\ r.score = ItemTotal(result'.scores)
           /\ (result'.op = "calculate_gad7_result" /\ clock' = clock)
             => \A r \in RowsOf(gad7_entries') \ RowsOf(gad7_entries) :
                  /\ r.score \in 0..21
                  /\ r.score = ItemTotal(result'.scores) ]_vars

C5_Witness ==
    /\ \E r \in RowsOf(checklist_entries) : r.score > 100 /\ r.level = "Invalid score"
    /\ \E r \in RowsOf(checklist_entries) : r.score = 30 /\ r.level = "Moderate depression"
    /\ result.op = "calculate_burns_result"

RoundTrip(old, new, score, label, entry_id) ==
    /\ Len(new) = Len(old) + 1
    /\ \E k \in 1..Len(new) :
         /\ new[k].score = score
         /\ new[k].level = label
         /\ new[k].id = entry_id
         /\ \A i \in 1..Len(old) : old[i].id < entry_id
         /\ new[k] \notin RowsOf(old)
         /\ RowsOf(new) = RowsOf(old) \cup {new[k]}
    /\ \A i, j \in 1..Len(new) : i # j => new[i] # new[j]

\* C6: a save followed by a listing gives the rows listed before, unchanged,
\* and one new row with the saved score, the classifier's label of it and
\* the returned id, which is greater than every earlier id; the other
\* instrument's rows stay as they were.
C6_SaveListRoundTrip ==
    [][ /\ (result'.op = "save_score" /\ clock' = clock)
          => /\ RoundTrip(get_all_entries, get_all_entries', result'.score,
                          get_depression_level(result'.score), result'.out.value)
             /\ get_all_gad7_entries' = get_all_gad7_entries
        /\ (result'.op = "save_gad7_score" /\ clock' = clock)
          => /\ RoundTrip(get_all_gad7_entries, get_all_gad7_entries', result'.score,
                          get_anxiety_level(result'.score), result'.out.value)
             /\ get_all_entries' = get_all_entries ]_vars

C6_Witness ==
    /\ result.op = "save_score"
    /\ Len(checklist_entries) >= 2
    /\ result.out.value = 2
    /\ Len(gad7_entries) >= 1

Listing(rows, table) ==
    /\ Len(rows) = Len(table)
    /\ \A i \in 1..Len(table) :
         Cardinality({j \in 1..Len(rows) : rows[j] = table[i]}) = 1
    /\ \A i, j \in 1..Len(rows) : i < j => rows[i].timestamp >= rows[j].timestamp
    /\ table = <<>> => rows = <<>>

\* C7: a listing holds every stored row of the instrument exactly once, with
\* timestamps never increasing along it, and is empty when nothing is stored.
C7_ListNewestFirst ==
    /\ result.op = "get_all_entries" => Listing(result.out.value, checklist_entries)
    /\ result.op = "get_all_gad7_entries" => Listing(result.out.value, gad7_entries)

C7_Witness ==
    /\ result.op = "get_all_entries"
    /\ Len(result.out.value) = 2
    /\ result.out.value[1].timestamp > result.out.value[2].timestamp
    /\ result.out.value[1].id > result.out.value[2].id

FollowsSaveOrder(rows) ==
    \A i, j \in 1..Len(rows) :
      rows[i].id > rows[j].id => (rows[i].timestamp >= rows[j].timestamp /\ i < j)

\* C10 as claimed: of two rows of a listing, the one saved later (the greater
\* id) has no earlier timestamp and comes first, also when both were saved
\* within one second.
C10_ListFollowsSaveOrder ==
    /\ result.op = "get_all_entries" => FollowsSaveOrder(result.out.value)
    /\ result.op = "get_all_gad7_entries" => FollowsSaveOrder(result.out.value)

(***************************************************************************)
(* Claims about the graph view (SpecGraph).                                *)
(***************************************************************************)
InWindow(entries, start, end) ==
    {i \in 1..Len(entries) :
       start <= strptime(entries[i].timestamp) /\ strptime(entries[i].timestamp) <= end}

\* The j-th smallest member of a set of positions.
Nth(positions, j) ==
    CHOOSE i \in positions : Cardinality({m \in positions : m <= i}) = j

Point(entry) == <<entry.score, strptime(entry.timestamp)>>

\* C8: the graph's points are exactly the listed entries whose timestamp t
\* satisfies start <= t <= end, in the order of the listing; a window whose
\* end lies before its start gives no points.
C8_WindowInclusive ==
    result.op = "update_graph" =>
      LET kept == InWindow(result.entries, result.start_date, result.now)
      IN  /\ Len(graph_data) = Cardinality(kept)
          /\ \A j \in 1..Len(graph_data) :
               graph_data[j] = Point(result.entries[Nth(kept, j)])
          /\ result.now < result.start_date => graph_data = <<>>

C8_Witness ==
    /\ result.op = "update_graph"
    /\ result.filter_type = "Custom"
    /\ Len(result.entries) = 2
    /\ Len(graph_data) = 1
    /\ graph_data[1][2] = result.start_date
    /\ graph_data[1][2] = result.now

\* C9 as claimed: with "All Time" the graph's points are all the stored entries of the
\* selected instrument, in the order of the listing.
C9_AllTimeKeepsAll ==
    (result.op = "update_graph" /\ result.filter_type = "All Time") =>
      LET table == IF result.graph_type = "Depression (Burns)"
                   THEN checklist_entries ELSE gad7_entries
          listed == IF result.graph_type = "Depression (Burns)"
                    THEN get_all_entries ELSE get_all_gad7_entries
      IN  /\ Len(graph_data) = Len(table)
          /\ \A r \in RowsOf(table) : \E j \in 1..Len(graph_data) : graph_data[j] = Point(r)
          /\ \A j \in 1..Len(graph_data) : graph_data[j] = Point(listed[j])

====
